---------------------------- MODULE Spec2Model ----------------------------
(***************************************************************************)
(* Model of ImageAutoRotator (src/autorotate.py): the rotator object, its  *)
(* two methods autorotate and get_angle, and the numerical pipeline        *)
(* (orientation of the detected segments, band filter, median, scale       *)
(* factor, rotation matrix, affine warp).                                  *)
(*                                                                         *)
(* Numbers.  Python floats are modelled in fixed point:                    *)
(*   - lengths, sines, cosines, scale factors and matrix entries are       *)
(*     integers in units of 1/ONE;                                         *)
(*   - angles are integers in units of 1/DEG degree.  Atan2Deg returns     *)
(*     even values, so the mean of two orientations (np.median on an even  *)
(*     number of angles) is exact.                                         *)
(* Every arithmetic step rounds to the nearest unit, as a float operation  *)
(* rounds to the nearest float.                                            *)
(*                                                                         *)
(* Optional values (Python's None) are sequences of length at most one:    *)
(* None is <<>> and a value v is <<v>>.                                    *)
(***************************************************************************)
EXTENDS Integers, Sequences, FiniteSets

VARIABLES
    files,            \* the input files: path -> None (missing) | <<image>>
    disk,             \* the output files: path -> None (absent) | <<image>>
    has_image,        \* whether the attribute self.image exists yet
    image_path,       \* self.image_path
    image,            \* self.image
    median_angle,     \* self.median_angle
    rotation_matrix,  \* self.rotation_matrix
    rotated_image,    \* self.rotated_image
    op,               \* the method called last: "new", "autorotate", "get_angle"
    outcome,          \* how it ended: "ok", "ValueError", "TypeError"
    call,             \* the arguments of the last autorotate call
    stages,           \* the library calls the last autorotate call made, in order
    scale_value,      \* the local scale_value of the last call that computed it
    estimated_path,   \* image_path of the last call that reached line 45
    reported          \* what the last get_angle call returned

vars == <<files, disk, has_image, image_path, image, median_angle,
          rotation_matrix, rotated_image, op, outcome, call, stages,
          scale_value, estimated_path, reported>>

attributes == <<has_image, image_path, image, median_angle, rotation_matrix,
                rotated_image>>

-----------------------------------------------------------------------------
(* Bounds of the input spaces.                                             *)

\* the longest detector output drawn for the estimator
MaxSegs == 3

\* the largest |x2 - x1| and |y2 - y1| of a drawn segment
MaxD == 1

\* the largest image width and height drawn for the transform builder
MaxDim == 5

-----------------------------------------------------------------------------
(* Fixed point and elementary functions.                                   *)

\* the float 1.0
ONE == 1000

\* angle units per degree
DEG == 200

\* the band of retained orientations, in degrees (line 42)
BandDeg == 60

\* borderValue=(255, 255, 255), one channel of it
White == 255

None == <<>>

Some(v) == <<v>>

Abs(x) == IF x < 0 THEN -x ELSE x

Max(a, b) == IF a >= b THEN a ELSE b

\* a / b rounded to the nearest integer, for b > 0
RDiv(a, b) == (2 * a + b) \div (2 * b)

\* ONE * sin(d degrees) for d = 0 .. 90, rounded
SinTab ==
  << 0, 17, 35, 52, 70, 87, 105, 122, 139, 156, 174, 191, 208,
     225, 242, 259, 276, 292, 309, 326, 342, 358, 375, 391, 407, 423,
     438, 454, 469, 485, 500, 515, 530, 545, 559, 574, 588, 602, 616,
     629, 643, 656, 669, 682, 695, 707, 719, 731, 743, 755, 766, 777,
     788, 799, 809, 819, 829, 839, 848, 857, 866, 875, 883, 891, 899,
     906, 914, 921, 927, 934, 940, 946, 951, 956, 961, 966, 970, 974,
     978, 982, 985, 988, 990, 993, 995, 996, 998, 999, 999, 1000, 1000 >>

SinD(d) == SinTab[d + 1]

CosD(d) == SinTab[90 - d + 1]

\* sin of a first-quadrant angle a (0 .. 90 degrees, in angle units):
\* the table, interpolated linearly between whole degrees
SinQ(a) ==
  LET d == a \div DEG
      f == a % DEG
  IN  IF f = 0 THEN SinD(d)
      ELSE SinD(d) + RDiv((SinD(d + 1) - SinD(d)) * f, DEG)

\* math.sin(math.radians(a)), a in angle units, -180 .. 180 degrees
Sin(a) ==
  LET b == Abs(a)
      s == IF b > 90 * DEG THEN SinQ(180 * DEG - b) ELSE SinQ(b)
  IN  IF a < 0 THEN -s ELSE s

\* math.cos(math.radians(a)), a in angle units, -180 .. 180 degrees
Cos(a) ==
  LET b == Abs(a)
  IN  IF b > 90 * DEG THEN -SinQ(b - 90 * DEG) ELSE SinQ(90 * DEG - b)

\* atan(ay / ax) in angle units for ax > 0, ay >= 0: the whole degree d with
\* tan d <= ay/ax < tan (d+1), then the fraction where
\* ay * cos = ax * sin on the interpolated table, in hundredths of a degree
AtanQ(ay, ax) ==
  LET d  == Cardinality({k \in 1..89 : SinD(k) * ax <= CosD(k) * ay})
      num == ay * CosD(d) - ax * SinD(d)
      den == ax * (SinD(d + 1) - SinD(d)) + ay * (CosD(d) - CosD(d + 1))
      f   == IF num = 0 THEN 0 ELSE RDiv(100 * num, den)
      h   == 100 * d + (IF f > 100 THEN 100 ELSE f)
  IN  (DEG \div 100) * h

\* math.atan2(dy, dx) * 180 / math.pi, in angle units, in (-180, 180] degrees
Atan2Calc(dy, dx) ==
  LET base == IF dx = 0 THEN (IF dy = 0 THEN 0 ELSE 90 * DEG)
              ELSE AtanQ(Abs(dy), Abs(dx))
  IN  IF dx >= 0
        THEN (IF dy < 0 THEN -base ELSE base)
        ELSE (IF dy < 0 THEN -(180 * DEG - base) ELSE 180 * DEG - base)

\* the largest coordinate difference within an image of the model
Reach == MaxDim + MaxD

\* Atan2Calc, tabulated once over the coordinate differences of the model
Atan2Tab ==
  [dy \in -Reach..Reach |-> [dx \in -Reach..Reach |-> Atan2Calc(dy, dx)]]

Atan2Deg(dy, dx) == Atan2Tab[dy][dx]

-----------------------------------------------------------------------------
(* Images and the external collaborators.                                  *)
(*                                                                         *)
(* An image is [w, h, pix, lines]: its width and height, its pixels (one   *)
(* channel, pix[y + 1][x + 1] in 0 .. 255) and the segments the detector   *)
(* finds in it.  Canny and HoughLinesP are deterministic functions of the  *)
(* pixels; the model carries their result with the image.                  *)

\* cv2.imread: None when the file is missing or cannot be decoded
Imread(fs, path) == fs[path]

\* cv2.HoughLinesP(cv2.Canny(...)): None when no line is found, else the
\* array of segments <<x1, y1, x2, y2>>
HoughLinesP(img) == IF img.lines = <<>> THEN None ELSE Some(img.lines)

\* the pixel (x, y) of img, and the border value outside it
PixelAt(img, x, y) ==
  IF x >= 0 /\ x < img.w /\ y >= 0 /\ y < img.h
    THEN img.pix[y + 1][x + 1]
    ELSE White

-----------------------------------------------------------------------------
(* Angle estimator, lines 38-45.                                           *)

\* line 41
SegmentAngle(segment) ==
  Atan2Deg(segment[4] - segment[2], segment[3] - segment[1])

\* line 42 with the band taken as +-90 degrees
InBandWide(angle) == -90 * DEG <= angle /\ angle <= 90 * DEG

\* line 42
InBand(angle) == -BandDeg * DEG <= angle /\ angle <= BandDeg * DEG

\* lines 38-43: the orientations kept, in the detector's order
RetainedAngles(segments) ==
  SelectSeq([i \in 1..Len(segments) |-> SegmentAngle(segments[i])], InBand)

RECURSIVE InsertSorted(_, _)
InsertSorted(sorted, v) ==
  IF sorted = <<>> THEN <<v>>
  ELSE IF v <= Head(sorted) THEN <<v>> \o sorted
  ELSE <<Head(sorted)>> \o InsertSorted(Tail(sorted), v)

RECURSIVE Sorted(_)
Sorted(s) ==
  IF s = <<>> THEN <<>> ELSE InsertSorted(Sorted(Tail(s)), Head(s))

\* a median that takes the lower middle element of an even-length list
MedianLowerMiddle(angles) ==
  LET s == Sorted(angles)
  IN  s[(Len(s) + 1) \div 2]

\* np.median of a non-empty list: the middle element of the sorted list,
\* or the mean of the two middle elements
Median(angles) ==
  LET s == Sorted(angles)
      n == Len(s)
  IN  IF n % 2 = 1 THEN s[(n + 1) \div 2]
      ELSE (s[n \div 2] + s[n \div 2 + 1]) \div 2

\* line 45
EstimateAngle(segments) ==
  LET angles == RetainedAngles(segments)
  IN  IF angles # <<>> THEN Median(angles) ELSE 0

-----------------------------------------------------------------------------
(* Corrective transform, lines 47-56.                                      *)

\* line 48
Center(width, height) == <<width \div 2, height \div 2>>

\* line 51
NewH(angle, width, height) ==
  height * Abs(Cos(angle)) + width * Abs(Sin(angle))

\* line 52
NewW(angle, width, height) ==
  width * Abs(Cos(angle)) - height * Abs(Sin(angle))

\* line 54 with min for max
ScaleValueMin(angle, width, height) ==
  LET a == RDiv(NewH(angle, width, height), height)
      b == RDiv(NewW(angle, width, height), width)
  IN  IF a <= b THEN a ELSE b

\* line 54 with the two divisors exchanged
ScaleValueSwapped(angle, width, height) ==
  Max(RDiv(NewH(angle, width, height), width),
      RDiv(NewW(angle, width, height), height))

\* line 54
ScaleValue(angle, width, height) ==
  Max(RDiv(NewH(angle, width, height), height),
      RDiv(NewW(angle, width, height), width))

\* cv2.getRotationMatrix2D(center, angle, scale)
GetRotationMatrix2D(center, angle, scale) ==
  LET alpha == RDiv(scale * Cos(angle), ONE)
      beta  == RDiv(scale * Sin(angle), ONE)
  IN  << <<alpha, beta, (ONE - alpha) * center[1] - beta * center[2]>>,
         <<-beta, alpha, beta * center[1] + (ONE - alpha) * center[2]>> >>

\* line 56 with the reciprocal scale of tests_generator.py, line 37
RotationMatrixReciprocal(angle, width, height, scale) ==
  GetRotationMatrix2D(Center(width, height), angle, RDiv(ONE * ONE, scale))

\* line 56
RotationMatrix(angle, width, height, scale) ==
  GetRotationMatrix2D(Center(width, height), angle, scale)

\* the point (x, y), integer pixel coordinates, under the 2x3 matrix m
Apply(m, x, y) ==
  << m[1][1] * x + m[1][2] * y + m[1][3],
     m[2][1] * x + m[2][2] * y + m[2][3] >>

-----------------------------------------------------------------------------
(* Resampler: cv2.warpAffine, lines 57-63.                                 *)

\* cv2.invertAffineTransform, which warpAffine applies to its matrix
InvertAffine(m) ==
  LET det == RDiv(m[1][1] * m[2][2] - m[1][2] * m[2][1], ONE)
      a11 == IF det = 0 THEN 0 ELSE  RDiv(m[2][2] * ONE, Abs(det)) * (IF det < 0 THEN -1 ELSE 1)
      a22 == IF det = 0 THEN 0 ELSE  RDiv(m[1][1] * ONE, Abs(det)) * (IF det < 0 THEN -1 ELSE 1)
      a12 == IF det = 0 THEN 0 ELSE -RDiv(m[1][2] * ONE, Abs(det)) * (IF det < 0 THEN -1 ELSE 1)
      a21 == IF det = 0 THEN 0 ELSE -RDiv(m[2][1] * ONE, Abs(det)) * (IF det < 0 THEN -1 ELSE 1)
  IN  << <<a11, a12, -RDiv(a11 * m[1][3] + a12 * m[2][3], ONE)>>,
         <<a21, a22, -RDiv(a21 * m[1][3] + a22 * m[2][3], ONE)>> >>

\* the source sampled at the fixed-point position (sx, sy): bilinear
\* interpolation, with the border value outside the source
Bilinear(img, sx, sy) ==
  LET x0 == sx \div ONE
      y0 == sy \div ONE
      fx == sx % ONE
      fy == sy % ONE
      top == PixelAt(img, x0, y0) * (ONE - fx) + PixelAt(img, x0 + 1, y0) * fx
      bot == PixelAt(img, x0, y0 + 1) * (ONE - fx)
               + PixelAt(img, x0 + 1, y0 + 1) * fx
  IN  RDiv(RDiv(top, ONE) * (ONE - fy) + RDiv(bot, ONE) * fy, ONE)

\* cv2.warpAffine(src, m, (width, height), borderMode=BORDER_CONSTANT,
\* borderValue=white): every destination pixel samples its pre-image
WarpAffine(src, m, width, height) ==
  LET inv == InvertAffine(m)
  IN  [ w   |-> width,
        h   |-> height,
        pix |-> [ y \in 1..height |->
                  [ x \in 1..width |->
                    LET s == Apply(inv, x - 1, y - 1)
                    IN  Bilinear(src, s[1], s[2]) ] ] ]

-----------------------------------------------------------------------------
(* ImageAutoRotator.autorotate, lines 29-68, and get_angle, lines 70-71.   *)

\* what a call reads and may change
Current ==
  [ has_image |-> has_image, image_path |-> image_path, image |-> image,
    median_angle |-> median_angle, rotation_matrix |-> rotation_matrix,
    rotated_image |-> rotated_image, disk |-> disk, outcome |-> outcome,
    stages |-> stages, scale_value |-> scale_value,
    estimated_path |-> estimated_path ]

\* lines 29-33 with the output file created before the image is checked
LoadFailureTouchesOutput(cur, path, output_path) ==
  [ cur EXCEPT !.image_path = Some(path),
               !.image = None,
               !.has_image = TRUE,
               !.outcome = "ValueError",
               !.stages = <<"imread">>,
               !.disk = IF output_path # None
                          THEN [cur.disk EXCEPT ![output_path[1]] =
                                  Some([w |-> 0, h |-> 0, pix |-> <<>>])]
                          ELSE cur.disk ]

\* lines 29-33 when imread returns None: the raise of line 33
LoadFailure(cur, path, output_path) ==
  [ cur EXCEPT !.image_path = Some(path),
               !.image = None,
               !.has_image = TRUE,
               !.outcome = "ValueError",
               !.stages = <<"imread">> ]

\* lines 29-39 when HoughLinesP returns None: `for segment in segments`
\* iterates over None and raises TypeError
DetectFailure(cur, path, img) ==
  [ cur EXCEPT !.image_path = Some(path),
               !.image = Some(img),
               !.has_image = TRUE,
               !.outcome = "TypeError",
               !.stages = <<"imread", "cvtColor", "Canny", "HoughLinesP">> ]

\* cv2.imwrite, lines 65-66
Imwrite(d, output_path, img) ==
  IF output_path # None THEN [d EXCEPT ![output_path[1]] = Some(img)] ELSE d

\* lines 29-68 when the image loads and the detector returns segments
Success(cur, path, output_path, img, segments) ==
  LET angle   == EstimateAngle(segments)
      height  == img.h
      width   == img.w
      scale   == ScaleValue(angle, width, height)
      matrix  == RotationMatrix(angle, width, height, scale)
      rotated == WarpAffine(img, matrix, width, height)
  IN  [ has_image |-> TRUE,
        image_path |-> Some(path),
        image |-> Some(img),
        median_angle |-> Some(angle),
        rotation_matrix |-> Some(matrix),
        rotated_image |-> Some(rotated),
        disk |-> Imwrite(cur.disk, output_path, rotated),
        outcome |-> "ok",
        stages |-> <<"imread", "cvtColor", "Canny", "HoughLinesP", "atan2",
                     "median", "getRotationMatrix2D", "warpAffine">>
                   \o (IF output_path # None THEN <<"imwrite">> ELSE <<>>),
        scale_value |-> Some(scale),
        estimated_path |-> Some(path) ]

AutorotateResult(cur, fs, path, output_path) ==
  LET loaded == Imread(fs, path)
  IN  IF loaded = None THEN LoadFailure(cur, path, output_path)
      ELSE LET segments == HoughLinesP(loaded[1])
           IN  IF segments = None THEN DetectFailure(cur, path, loaded[1])
               ELSE Success(cur, path, output_path, loaded[1], segments[1])

\* the attributes, the output files and the record of the call after it
Commit(r, path, output_path) ==
  /\ has_image' = r.has_image
  /\ image_path' = r.image_path
  /\ image' = r.image
  /\ median_angle' = r.median_angle
  /\ rotation_matrix' = r.rotation_matrix
  /\ rotated_image' = r.rotated_image
  /\ disk' = r.disk
  /\ outcome' = r.outcome
  /\ stages' = r.stages
  /\ scale_value' = r.scale_value
  /\ estimated_path' = r.estimated_path
  /\ op' = "autorotate"
  /\ call' = [image_path |-> path, output_path |-> output_path]
  /\ UNCHANGED <<files, reported>>

Autorotate(path, output_path) ==
  Commit(AutorotateResult(Current, files, path, output_path), path,
         output_path)

\* line 71 without the minus sign
GetAngleValueSame(angle) == angle

\* line 71: the value returned when median_angle is a number
GetAngleValue(angle) == -angle

\* line 71: unary minus on None raises TypeError
GetAngle ==
  /\ op' = "get_angle"
  /\ IF median_angle = None
       THEN outcome' = "TypeError" /\ reported' = None
       ELSE outcome' = "ok" /\ reported' = Some(GetAngleValue(median_angle[1]))
  /\ UNCHANGED <<files, disk, attributes, call, stages, scale_value,
                 estimated_path>>

-----------------------------------------------------------------------------
(* Inputs.                                                                 *)

MakePix(w, h, seed) ==
  [y \in 1..h |-> [x \in 1..w |-> (53 * x + 101 * y + seed) % 256]]

MakeImage(w, h, seed, lines) ==
  [w |-> w, h |-> h, pix |-> MakePix(w, h, seed), lines |-> lines]

Min(a, b) == IF a <= b THEN a ELSE b

\* the segments of a w x h image with |x2 - x1|, |y2 - y1| <= MaxD, one for
\* each direction (the code reads only x2 - x1 and y2 - y1, line 41)
SegmentsIn(w, h) ==
  { << (IF dx < 0 THEN -dx ELSE 0), (IF dy < 0 THEN -dy ELSE 0),
       (IF dx < 0 THEN 0 ELSE dx), (IF dy < 0 THEN 0 ELSE dy) >> :
      dx \in -Min(MaxD, w - 1)..Min(MaxD, w - 1),
      dy \in -Min(MaxD, h - 1)..Min(MaxD, h - 1) }

SeqsUpTo(S, n) == UNION { [1..k -> S] : k \in 1..n }

\* the files of the state-machine specification
Fixtures ==
  [ p \in { "level.jpg", "tilted.jpg", "counter.jpg", "tall.jpg",
            "upright.jpg", "blank.jpg", "missing.jpg" } |->
      CASE p = "level.jpg"   -> Some(MakeImage(4, 3, 7, << <<0, 0, 3, 0>> >>))
        [] p = "tilted.jpg"  -> Some(MakeImage(3, 3, 11,
                                  << <<0, 0, 2, 1>>, <<0, 0, 0, 2>>,
                                     <<0, 0, 1, 1>>, <<0, 1, 2, 2>> >>))
        [] p = "counter.jpg" -> Some(MakeImage(3, 2, 19,
                                  << <<0, 1, 2, 0>>, <<0, 1, 1, 0>> >>))
        [] p = "tall.jpg"    -> Some(MakeImage(2, 5, 23, << <<0, 0, 1, 1>> >>))
        [] p = "upright.jpg" -> Some(MakeImage(2, 3, 29, << <<0, 0, 0, 2>> >>))
        [] p = "blank.jpg"   -> Some(MakeImage(3, 2, 31, <<>>))
        [] OTHER             -> None ]

OutPaths == {"result.jpg"}

OutputArgs == {None} \cup {Some(o) : o \in OutPaths}

\* the file of the pure-function specifications
InPath == "input.jpg"

-----------------------------------------------------------------------------
(* Specifications.                                                         *)

\* __init__, lines 6-10, with the files fs around it
InitWith(fs) ==
  /\ files = fs
  /\ disk = [o \in OutPaths |-> None]
  /\ has_image = FALSE
  /\ image_path = None
  /\ image = None
  /\ median_angle = None
  /\ rotation_matrix = None
  /\ rotated_image = None
  /\ op = "new"
  /\ outcome = "ok"
  /\ call = [image_path |-> "", output_path |-> None]
  /\ stages = <<>>
  /\ scale_value = None
  /\ estimated_path = None
  /\ reported = None

Init == InitWith(Fixtures)

Next ==
  \/ \E path \in DOMAIN files, output_path \in OutputArgs :
       Autorotate(path, output_path)
  \/ GetAngle

\* any sequence of autorotate and get_angle calls on one rotator
Spec == Init /\ [][Next]_vars

\* the estimator as a function of the detector's output: one call on a fresh
\* rotator, for every list of 1 .. MaxSegs segments
InitEst ==
  \E lines \in SeqsUpTo(SegmentsIn(MaxD + 1, MaxD + 1), MaxSegs) :
    InitWith([p \in {InPath} |->
                Some(MakeImage(MaxD + 1, MaxD + 1, 3, lines))])

\* the one call of a pure-function specification
NextPure ==
  /\ op = "new"
  /\ \E path \in DOMAIN files : Autorotate(path, None)

SpecEst == InitEst /\ [][NextPure]_vars

\* the transform builder as a function of the angle and of W, H: one call on
\* a fresh rotator, for every W, H in 1 .. MaxDim and every angle the
\* estimator produces there (a median is an element or the mean of two, so
\* lists of one and two segments give them all)
InitXform ==
  \E w \in 1..MaxDim, h \in 1..MaxDim :
    \E lines \in SeqsUpTo(SegmentsIn(w, h), 2) :
      InitWith([p \in {InPath} |-> Some(MakeImage(w, h, 3, lines))])

SpecXform == InitXform /\ [][NextPure]_vars

-----------------------------------------------------------------------------
(* Vocabulary of the properties.                                           *)

\* the last operation was an autorotate call that returned
Returned == op = "autorotate" /\ outcome = "ok"

\* the orientations of the segments of lines, and the positions kept by the
\* band [-60, 60] degrees, both ends included
Orientation(lines) ==
  [i \in 1..Len(lines) |->
     Atan2Deg(lines[i][4] - lines[i][2], lines[i][3] - lines[i][1])]

Kept(lines) ==
  {i \in 1..Len(lines) :
     /\ Orientation(lines)[i] >= -60 * DEG
     /\ Orientation(lines)[i] <= 60 * DEG}

\* v is the k-th smallest of the kept orientations
IsOrderStatistic(lines, v, k) ==
  /\ Cardinality({i \in Kept(lines) : Orientation(lines)[i] < v}) < k
  /\ k <= Cardinality({i \in Kept(lines) : Orientation(lines)[i] <= v})

\* m is the statistical median of the kept orientations, 0 when none is kept
IsMedianOfKept(lines, m) ==
  LET n == Cardinality(Kept(lines))
  IN  IF n = 0 THEN m = 0
      ELSE \E i, j \in Kept(lines) :
             /\ IsOrderStatistic(lines, Orientation(lines)[i], (n + 1) \div 2)
             /\ IsOrderStatistic(lines, Orientation(lines)[j], n \div 2 + 1)
             /\ 2 * m = Orientation(lines)[i] + Orientation(lines)[j]

\* the corners of the W x H source rectangle of the loaded image
Corners ==
  { <<x, y>> : x \in {0, image[1].w}, y \in {0, image[1].h} }

\* corner c, mapped by the stored matrix, lies in the W x H canvas
CornerInside(c) ==
  LET q == Apply(rotation_matrix[1], c[1], c[2])
  IN  /\ 0 <= q[1] /\ q[1] <= image[1].w * ONE
      /\ 0 <= q[2] /\ q[2] <= image[1].h * ONE

Identity == << <<ONE, 0, 0>>, <<0, ONE, 0>> >>

-----------------------------------------------------------------------------
(* Properties.                                                             *)

\* C1: when the detector yields no segment for a loadable image, autorotate
\* completes normally and the estimated skew angle is exactly 0.
C1_NoSegmentsYieldsZero ==
  (op = "autorotate" /\ image # None /\ image[1].lines = <<>>)
    => (outcome = "ok" /\ median_angle = Some(0))

\* C2: for a non-empty collection of segments the estimated skew angle is the
\* statistical median of exactly the orientations in [-60, 60] degrees, both
\* ends retained, and 0 when no orientation lies in the band.
C2_MedianOfRetained ==
  Returned =>
    /\ median_angle # None
    /\ IsMedianOfKept(image[1].lines, median_angle[1])

\* C2: three segments, one outside the band, the two kept ones of different
\* orientation: the estimate is their mean.
C2_Witness ==
  /\ Returned
  /\ Len(image[1].lines) = 3
  /\ Cardinality(Kept(image[1].lines)) = 2
  /\ \A i \in Kept(image[1].lines) :
       Orientation(image[1].lines)[i] # median_angle[1]

\* C3, as stated: the scale factor passed to the transform is at least 1.
C3_ScaleAtLeastOne == Returned => scale_value[1] >= ONE

\* C3, amended: the scale factor passed to the transform is
\* max(new_h / H, new_w / W) with no floor at 1; it is at least 1 whenever
\* W >= H.
C3_ScaleIsUnflooredMax ==
  Returned =>
    /\ scale_value # None
    /\ scale_value[1] =
         Max(RDiv(NewH(median_angle[1], image[1].w, image[1].h), image[1].h),
             RDiv(NewW(median_angle[1], image[1].w, image[1].h), image[1].w))
    /\ (image[1].w >= image[1].h => scale_value[1] >= ONE)

\* C3: a tilted image at least as wide as high, enlarged by the transform.
C3_Witness ==
  /\ Returned
  /\ median_angle # Some(0)
  /\ image[1].w >= image[1].h
  /\ scale_value[1] > ONE

\* C4, as stated: the transform maps the four corners of the source
\* rectangle into the W x H canvas.
C4_CornersStayInside == Returned => \A c \in Corners : CornerInside(c)

\* C4, amended: the transform maps the four corners of the source rectangle
\* into the W x H canvas exactly when the estimated angle is 0; for every
\* other angle at least one corner leaves the canvas.
C4_CornersInsideIffLevel ==
  Returned => ((\A c \in Corners : CornerInside(c)) <=> median_angle = Some(0))

\* C4: a tilted image whose transform enlarges it and moves a corner out.
C4_Witness ==
  /\ Returned
  /\ median_angle # Some(0)
  /\ scale_value[1] >= ONE
  /\ \E c \in Corners : ~CornerInside(c)

\* C5: get_angle returns the negation of the skew angle computed by the most
\* recent autorotate call that estimated one.
C5_ReportsNegatedSkew ==
  (op = "get_angle" /\ outcome = "ok") =>
    /\ estimated_path # None
    /\ reported # None
    /\ IsMedianOfKept(files[estimated_path[1]][1].lines, -reported[1])

\* C5: get_angle after at least two estimations, the earlier one of another
\* image (its output is still on disk), the reported angle not 0.
C5_Witness ==
  /\ op = "get_angle" /\ outcome = "ok"
  /\ reported # Some(0)
  /\ \E o \in OutPaths :
       /\ disk[o] # None
       /\ rotated_image # None
       /\ disk[o] # rotated_image

\* C6: a call on a file that cannot be loaded raises the error of line 33
\* after imread alone, and writes no output file.
C6_LoadFailureWritesNothing ==
  [][ (op' = "autorotate" /\ files[call'.image_path] = None)
        => (outcome' = "ValueError" /\ stages' = <<"imread">> /\ disk' = disk)
    ]_vars

\* C6: a failed load in a call that was given an output path, on a rotator
\* that has a rotated image to write.
C6_Witness ==
  /\ op = "autorotate" /\ outcome = "ValueError"
  /\ call.output_path # None
  /\ rotated_image # None

\* C7: get_angle before any estimation returns None instead of failing.
C7_GetAngleBeforeEstimation ==
  (op = "get_angle" /\ median_angle = None)
    => (outcome = "ok" /\ reported = None)

\* C8: the stored skew angle is unset or in [-60, 60] degrees, and so is every
\* angle get_angle returns.
C8_AngleInBand ==
  /\ median_angle # None =>
       (median_angle[1] >= -60 * DEG /\ median_angle[1] <= 60 * DEG)
  /\ (op = "get_angle" /\ outcome = "ok") =>
       (reported # None /\ reported[1] >= -60 * DEG /\ reported[1] <= 60 * DEG)

\* C8: an angle reported for an image in which the detector found a segment
\* outside the band.
C8_Witness ==
  /\ op = "get_angle" /\ outcome = "ok"
  /\ has_image /\ image # None
  /\ estimated_path = image_path
  /\ Cardinality(Kept(image[1].lines)) < Len(image[1].lines)

\* C9: a failed autorotate call leaves every attribute of the rotator as it
\* was before the call.
C9_FailedCallLeavesAttributes ==
  [][ (op' = "autorotate" /\ outcome' # "ok") => attributes' = attributes ]_vars

\* C10: when the estimated angle is 0 the scale factor is exactly 1, the
\* transform is the identity and the output equals the input, pixel for
\* pixel, in the input's dimensions.
C10_LevelIsIdentity ==
  (Returned /\ median_angle = Some(0)) =>
    /\ scale_value = Some(ONE)
    /\ rotation_matrix = Some(Identity)
    /\ rotated_image # None
    /\ rotated_image[1].w = image[1].w
    /\ rotated_image[1].h = image[1].h
    /\ rotated_image[1].pix = image[1].pix

\* C10: an image that is not square, no segment of which is retained.
C10_Witness ==
  /\ Returned
  /\ median_angle = Some(0)
  /\ Kept(image[1].lines) = {}
  /\ image[1].w # image[1].h

=============================================================================
